---- MODULE Spec2Model ----
(***************************************************************************)
(* State-machine model of R3StretcherImpl (src/src/finer/                  *)
(* R3StretcherImpl.cpp): the hop scheduler, the per-channel ring queues,   *)
(* the draining flag and the consume loop.  A process call is modelled as  *)
(* the call itself (flag, growth, write, outhop) followed by one step per  *)
(* iteration of the consume loop and a final step at which the loop exits  *)
(* and process returns; no other operation can start in between, as the    *)
(* engine is single-threaded.                                              *)
(*                                                                         *)
(* Ratios are exact rationals <<num, den>> with num, den > 0.              *)
(***************************************************************************)
EXTENDS Integers, Sequences, FiniteSets, TLC

VARIABLES
    m_timeRatio,   \* R3StretcherImpl::m_timeRatio, a rational <<num, den>>
    m_pitchScale,  \* R3StretcherImpl::m_pitchScale, a rational <<num, den>>
    m_inhop,       \* R3StretcherImpl::m_inhop
    m_draining,    \* R3StretcherImpl::m_draining
    inbuf,         \* m_channelData[c]->inbuf : [size, occ] per channel
    outbuf,        \* m_channelData[c]->outbuf: [size, occ] per channel
    touched,       \* per channel: accumulators / prevMag / prevOutPhase
                   \* have been written since construction
    pc,            \* "idle", or "consume" while process is inside consume()
    outhop,        \* the local outhop of the running consume() call
    last,          \* the last step taken: operation, arguments, result
    finalCalled,   \* history: some process call had final = true
    fed,           \* history: samples handed to process (counted callers)
    got,           \* history: samples returned by retrieve (counted callers)
    frame          \* the spectral data of the channels (m_channelData[c]->
                   \* scales, segmentation, guidance, mixdown), followed
                   \* under SpecFrame only and NoFrame elsewhere

vars == <<m_timeRatio, m_pitchScale, m_inhop, m_draining, inbuf, outbuf,
          touched, pc, outhop, last, finalCalled, fed, got, frame>>

----------------------------------------------------------------------------
(* Bounds of the model *)

\* number of channels (m_parameters.channels)
Channels == 2
\* m_guideConfiguration.longestFftSize
Longest == 512
\* largest capacity an input queue is let grow to
MaxInSize == 2400

Chan == 0 .. (Channels - 1)

\* initial capacity of every input queue
InSize == 2 * Longest
\* capacity of every output queue
OutSize == 2 * Longest

\* sample counts the caller passes to process and to retrieve
ProcessCounts == {0, 192, 640, 1600}
RetrieveCounts == {0, 128, 2 * OutSize}

\* ratios the caller passes to setTimeRatio / setPitchScale
TimeRatios == {<<1, 1>>, <<2, 1>>}
PitchScales == {<<1, 1>>, <<2, 1>>}

----------------------------------------------------------------------------
(* Arithmetic helpers *)

Min(a, b) == IF a < b THEN a ELSE b
Max(a, b) == IF a > b THEN a ELSE b

\* round() of the positive rational num/den: halves round away from zero
Round(num, den) == (2 * num + den) \div (2 * den)

Floor(num, den) == num \div den
Ceil(num, den) == (num + den - 1) \div den

----------------------------------------------------------------------------
(* Ring queue (RingBuffer<float>): a capacity and an occupancy *)

getReadSpace(b) == b.occ
getWriteSpace(b) == b.size - b.occ
getSize(b) == b.size

\* write(src, n): writes what fits, returns the count written
writeCount(b, n) == Min(n, getWriteSpace(b))
write(b, n) == [b EXCEPT !.occ = b.occ + writeCount(b, n)]

\* read(dst, n): reads what is there, returns the count read
readCount(b, n) == Min(n, getReadSpace(b))
read(b, n) == [b EXCEPT !.occ = b.occ - readCount(b, n)]

\* skip(n): discards what is there, up to n
skip(b, n) == [b EXCEPT !.occ = b.occ - Min(n, getReadSpace(b))]

\* resized(newSize): a new queue of that capacity holding the readable
\* content of the old one (as much of it as fits)
resized(b, newSize) == [size |-> newSize, occ |-> Min(b.occ, newSize)]

----------------------------------------------------------------------------
(* Hop scheduler *)

\* nominal output hop: double proposedOuthop = 256
proposedOuthop == 256
\* cap of the input hop for ratios <= 1
maxInhop == 340

\* getEffectiveRatio(): time ratio times pitch scale
getEffectiveRatio(t, p) == <<t[1] * p[1], t[2] * p[2]>>

\* calculateHop() with the inhop < 1 clamp left out
calculateHop_noClamp(r) ==
    IF r[1] > r[2]
    THEN Round(proposedOuthop * r[2], r[1])
    ELSE IF proposedOuthop * r[2] <= maxInhop * r[1]
         THEN Round(proposedOuthop * r[2], r[1])
         ELSE Round(maxInhop, 1)

\* calculateHop() with the cap of 340 left out
calculateHop_noCap(r) ==
    IF r[1] > r[2]
    THEN IF proposedOuthop * r[2] < r[1]
         THEN 1
         ELSE Round(proposedOuthop * r[2], r[1])
    ELSE Round(proposedOuthop * r[2], r[1])

\* calculateHop(): the new m_inhop for effective ratio r = <<num, den>>;
\* proposedOuthop / r is (proposedOuthop * den) / num
calculateHop(r) ==
    IF r[1] > r[2]
    THEN IF proposedOuthop * r[2] < r[1]
         THEN 1
         ELSE Round(proposedOuthop * r[2], r[1])
    ELSE IF proposedOuthop * r[2] <= maxInhop * r[1]
         THEN Round(proposedOuthop * r[2], r[1])
         ELSE Round(maxInhop, 1)

\* m_calculator->calculateSingle(ratio, 1/pitchScale, 1.f, inhop, ...):
\* the output hops the rate calculator may return for this call: the
\* input hop times the effective ratio, rounded either way, at least 1
calculateSingle(r, inhop) ==
    { Max(1, Floor(inhop * r[1], r[2])), Max(1, Ceil(inhop * r[1], r[2])) }

----------------------------------------------------------------------------
(* Records of the last step *)

Step(op) == [op |-> op, n |-> 0, final |-> FALSE, ratio |-> <<1, 1>>,
             ret |-> 0]

\* the value of frame where the spectral data is not followed
NoFrame == [k |-> 0]

----------------------------------------------------------------------------
(* Construction *)

Init ==
    /\ m_timeRatio = <<1, 1>>
    /\ m_pitchScale = <<1, 1>>
    /\ m_inhop = calculateHop(getEffectiveRatio(<<1, 1>>, <<1, 1>>))
    /\ m_draining = FALSE
    /\ inbuf = [c \in Chan |-> [size |-> InSize, occ |-> 0]]
    /\ outbuf = [c \in Chan |-> [size |-> OutSize, occ |-> 0]]
    /\ touched = [c \in Chan |-> FALSE]
    /\ pc = "idle"
    /\ outhop = 0
    /\ last = Step("init")
    /\ finalCalled = FALSE
    /\ fed = 0
    /\ got = 0
    /\ frame = NoFrame

----------------------------------------------------------------------------
(* setTimeRatio / setPitchScale / getters *)

setTimeRatio(ratio) ==
    /\ pc = "idle"
    /\ m_timeRatio' = ratio
    /\ m_inhop' = calculateHop(getEffectiveRatio(ratio, m_pitchScale))
    /\ last' = [Step("setTimeRatio") EXCEPT !.ratio = ratio]
    /\ UNCHANGED <<m_pitchScale, m_draining, inbuf, outbuf, touched, pc,
                   outhop, finalCalled, fed, got, frame>>

setPitchScale(scale) ==
    /\ pc = "idle"
    /\ m_pitchScale' = scale
    /\ m_inhop' = calculateHop(getEffectiveRatio(m_timeRatio, scale))
    /\ last' = [Step("setPitchScale") EXCEPT !.ratio = scale]
    /\ UNCHANGED <<m_timeRatio, m_draining, inbuf, outbuf, touched, pc,
                   outhop, finalCalled, fed, got, frame>>

getTimeRatio ==
    /\ pc = "idle"
    /\ last' = [Step("getTimeRatio") EXCEPT !.ratio = m_timeRatio]
    /\ UNCHANGED <<m_timeRatio, m_pitchScale, m_inhop, m_draining, inbuf,
                   outbuf, touched, pc, outhop, finalCalled, fed, got, frame>>

getPitchScale ==
    /\ pc = "idle"
    /\ last' = [Step("getPitchScale") EXCEPT !.ratio = m_pitchScale]
    /\ UNCHANGED <<m_timeRatio, m_pitchScale, m_inhop, m_draining, inbuf,
                   outbuf, touched, pc, outhop, finalCalled, fed, got, frame>>

----------------------------------------------------------------------------
(* reset / getSamplesRequired / available / retrieve *)

\* reset(): the body is empty
reset ==
    /\ pc = "idle"
    /\ last' = Step("reset")
    /\ UNCHANGED <<m_timeRatio, m_pitchScale, m_inhop, m_draining, inbuf,
                   outbuf, touched, pc, outhop, finalCalled, fed, got, frame>>

\* getSamplesRequired() with the comparison left out
samplesRequired_noFloor(rs) == Longest - rs

samplesRequired(rs) == IF rs < Longest THEN Longest - rs ELSE 0

getSamplesRequired ==
    /\ pc = "idle"
    /\ last' = [Step("getSamplesRequired") EXCEPT
                   !.ret = samplesRequired(getReadSpace(inbuf[0]))]
    /\ UNCHANGED <<m_timeRatio, m_pitchScale, m_inhop, m_draining, inbuf,
                   outbuf, touched, pc, outhop, finalCalled, fed, got, frame>>

\* available() with the draining test left out
availableResult_noDraining(av, draining) == IF av = 0 THEN -1 ELSE av

availableResult(av, draining) == IF av = 0 /\ draining THEN -1 ELSE av

available ==
    /\ pc = "idle"
    /\ last' = [Step("available") EXCEPT
                   !.ret = availableResult(getReadSpace(outbuf[0]),
                                           m_draining)]
    /\ UNCHANGED <<m_timeRatio, m_pitchScale, m_inhop, m_draining, inbuf,
                   outbuf, touched, pc, outhop, finalCalled, fed, got, frame>>

\* retrieve() returning what channel 0 gave
retrieveGot_first(ob, samples, c) == Min(samples, ob[0].occ)

\* the value of got after the loop of retrieve has handled channels 0 .. c
RECURSIVE retrieveGot(_, _, _)
retrieveGot(ob, samples, c) ==
    IF c < 0 THEN samples
    ELSE LET g == retrieveGot(ob, samples, c - 1)
             gotHere == readCount(ob[c], g)
         IN IF gotHere < g THEN gotHere ELSE g

\* only channel 0 is read
retrieveRead_firstOnly(ob, samples) ==
    [c \in Chan |-> IF c = 0 THEN read(ob[c], samples) ELSE ob[c]]

\* channel c is read with the value got has when the loop reaches it
retrieveRead(ob, samples) ==
    [c \in Chan |-> read(ob[c], retrieveGot(ob, samples, c - 1))]

retrieveCall(samples) ==
    /\ pc = "idle"
    /\ outbuf' = retrieveRead(outbuf, samples)
    /\ last' = [Step("retrieve") EXCEPT
                   !.n = samples,
                   !.ret = retrieveGot(outbuf, samples, Channels - 1)]
    /\ UNCHANGED <<m_timeRatio, m_pitchScale, m_inhop, m_draining, inbuf,
                   touched, pc, outhop, finalCalled, frame>>

retrieve(samples) ==
    /\ retrieveCall(samples)
    /\ UNCHANGED <<fed, got>>

----------------------------------------------------------------------------
(* process *)

\* process storing the argument instead of only ever setting the flag
drainingAfter_assign(draining, final) == final

drainingAfter(draining, final) == IF final THEN TRUE ELSE draining

\* newSize computed without the buffered content
newSize_samples(size, ws, samples) == samples

\* size_t newSize = inbuf->getSize() - ws + samples
newSize(size, ws, samples) == size - ws + samples

\* the growth replacing the queue of channel 0 only
grown_firstOnly(ib, samples) ==
    LET ws == getWriteSpace(ib[0])
    IN IF samples > ws
       THEN [c \in Chan |->
                IF c = 0
                THEN resized(ib[c], newSize(getSize(ib[0]), ws, samples))
                ELSE ib[c]]
       ELSE ib

\* the input queues after the growth check of process
grown(ib, samples) ==
    LET ws == getWriteSpace(ib[0])
    IN IF samples > ws
       THEN [c \in Chan |->
                resized(ib[c], newSize(getSize(ib[0]), ws, samples))]
       ELSE ib

processCall(samples, final) ==
    /\ pc = "idle"
    /\ getSize(grown(inbuf, samples)[0]) <= MaxInSize
    /\ m_draining' = drainingAfter(m_draining, final)
    /\ inbuf' = [c \in Chan |-> write(grown(inbuf, samples)[c], samples)]
    /\ outhop' \in calculateSingle(
                      getEffectiveRatio(m_timeRatio, m_pitchScale), m_inhop)
    /\ pc' = "consume"
    /\ last' = [Step("process") EXCEPT
                   !.n = samples,
                   !.final = final]
    /\ finalCalled' = (finalCalled \/ final)
    /\ UNCHANGED <<m_timeRatio, m_pitchScale, m_inhop, outbuf, touched,
                   frame>>

process(samples, final) ==
    /\ processCall(samples, final)
    /\ UNCHANGED <<fed, got>>

----------------------------------------------------------------------------
(* consume *)

\* the while condition with the test of the output queue left out
loopCondition_noRoom == m_draining \/ getReadSpace(inbuf[0]) >= Longest

\* the condition of the while loop
loopCondition ==
    /\ (m_draining \/ getReadSpace(inbuf[0]) >= Longest)
    /\ getWriteSpace(outbuf[0]) >= outhop

\* the loop body without the break
loopBreak_never == FALSE

\* the break at the top of the loop body
loopBreak == m_draining /\ getReadSpace(inbuf[0]) = 0

\* an iteration that neither writes its output nor skips its input
consumeIteration_stuck ==
    /\ pc = "consume"
    /\ loopCondition
    /\ ~loopBreak
    /\ touched' = [c \in Chan |-> TRUE]
    /\ last' = Step("iteration")
    /\ UNCHANGED <<m_timeRatio, m_pitchScale, m_inhop, m_draining, inbuf,
                   outbuf, pc, outhop, finalCalled, fed, got, frame>>

\* one iteration of the loop: every channel is analysed and resynthesised,
\* writes outhop samples of mixdown and skips m_inhop samples of input
consumeQueues ==
    /\ pc = "consume"
    /\ loopCondition
    /\ ~loopBreak
    /\ outbuf' = [c \in Chan |-> write(outbuf[c], outhop)]
    /\ inbuf' = [c \in Chan |-> skip(inbuf[c], m_inhop)]
    /\ touched' = [c \in Chan |-> TRUE]
    /\ last' = [Step("iteration") EXCEPT
                   !.n = Min(m_inhop, getReadSpace(inbuf[0]))]
    /\ UNCHANGED <<m_timeRatio, m_pitchScale, m_inhop, m_draining, pc,
                   outhop, finalCalled, fed, got>>

consumeIteration ==
    /\ consumeQueues
    /\ UNCHANGED frame

\* the loop ends; consume and process return
consumeReturn ==
    /\ pc = "consume"
    /\ ~(loopCondition /\ ~loopBreak)
    /\ pc' = "idle"
    /\ last' = Step("return")
    /\ UNCHANGED <<m_timeRatio, m_pitchScale, m_inhop, m_draining, inbuf,
                   outbuf, touched, outhop, finalCalled, fed, got, frame>>

----------------------------------------------------------------------------
(* The engine under any caller *)

Next ==
    \/ \E r \in TimeRatios : setTimeRatio(r)
    \/ \E s \in PitchScales : setPitchScale(s)
    \/ getTimeRatio
    \/ getPitchScale
    \/ reset
    \/ getSamplesRequired
    \/ available
    \/ \E n \in RetrieveCounts : retrieve(n)
    \/ \E n \in ProcessCounts, f \in BOOLEAN : process(n, f)
    \/ consumeIteration
    \/ consumeReturn

Spec == Init /\ [][Next]_vars

----------------------------------------------------------------------------
(* The hop scheduler under a caller that only sets and reads the ratios *)

HopTimeRatios == {<<1, 4>>, <<1, 2>>, <<3, 4>>, <<4, 5>>, <<1, 1>>, <<3, 2>>,
                  <<2, 1>>, <<3, 1>>, <<100, 1>>, <<256, 1>>, <<300, 1>>,
                  <<1000, 1>>}
HopPitchScales == {<<1, 2>>, <<1, 1>>, <<5, 4>>, <<2, 1>>, <<4, 1>>}

NextHop ==
    \/ \E r \in HopTimeRatios : setTimeRatio(r)
    \/ \E s \in HopPitchScales : setPitchScale(s)
    \/ getTimeRatio
    \/ getPitchScale

SpecHop == Init /\ [][NextHop]_vars

----------------------------------------------------------------------------
(* One process call with final = true on a fresh engine, then retrieve and *)
(* available calls; fed and got count the samples in and out               *)

FinalCounts == {0, 192, 640, 1024, 1600, 2240}

processCounted(samples, final) ==
    /\ processCall(samples, final)
    /\ fed' = fed + samples
    /\ UNCHANGED got

retrieveCounted(samples) ==
    /\ retrieveCall(samples)
    /\ got' = got + retrieveGot(outbuf, samples, Channels - 1)
    /\ UNCHANGED fed

NextFinal ==
    \/ \E n \in FinalCounts : last.op = "init" /\ processCounted(n, TRUE)
    \/ consumeIteration
    \/ consumeReturn
    \/ \E n \in RetrieveCounts : last.op # "init" /\ retrieveCounted(n)
    \/ last.op # "init" /\ available

SpecFinal == Init /\ [][NextFinal]_vars

----------------------------------------------------------------------------
(* retrieve and available on output queues of any occupancies, equal or    *)
(* not across the channels (the imbalance retrieve tests for)              *)

ImbalanceOccs == {0, 128, 384, OutSize}

InitImbalance ==
    /\ m_timeRatio = <<1, 1>>
    /\ m_pitchScale = <<1, 1>>
    /\ m_inhop = calculateHop(getEffectiveRatio(<<1, 1>>, <<1, 1>>))
    /\ m_draining \in BOOLEAN
    /\ finalCalled = m_draining
    /\ inbuf = [c \in Chan |-> [size |-> InSize, occ |-> 0]]
    /\ outbuf \in [Chan -> {[size |-> OutSize, occ |-> k] :
                               k \in ImbalanceOccs}]
    /\ touched = [c \in Chan |-> TRUE]
    /\ pc = "idle"
    /\ outhop = 0
    /\ last = Step("init")
    /\ fed = 0
    /\ got = 0
    /\ frame = NoFrame

NextImbalance ==
    \/ \E n \in RetrieveCounts : retrieve(n)
    \/ available

SpecImbalance == InitImbalance /\ [][NextImbalance]_vars

----------------------------------------------------------------------------
(* Termination of process: the engine under a caller that sets the ratios, *)
(* extreme ones too, before it feeds input; a call that has started runs   *)
(* its loop to the end                                                     *)

TermTimeRatios == {<<1, 4>>, <<1, 1>>, <<600, 1>>}
TermPitchScales == {<<1, 1>>, <<2, 1>>}
TermCounts == {0, 200, 520}
\* total number of samples the caller hands to process
MaxFed == 720

NextTerm ==
    \/ \E r \in TermTimeRatios : fed = 0 /\ setTimeRatio(r)
    \/ \E s \in TermPitchScales : fed = 0 /\ setPitchScale(s)
    \/ \E n \in TermCounts, f \in BOOLEAN :
          fed + n <= MaxFed /\ processCounted(n, f)
    \/ consumeIteration
    \/ consumeReturn
    \/ retrieve(OutSize)

SpecTerm ==
    /\ Init
    /\ [][NextTerm]_vars
    /\ WF_vars(consumeIteration)
    /\ WF_vars(consumeReturn)

----------------------------------------------------------------------------
(* The spectral pipeline of one iteration of the consume loop.  Spectra    *)
(* are followed symbolically: a magnitude bin records the frame it was     *)
(* analysed from, how many times it was multiplied by winscale and whether *)
(* it was set to zero; a phase records its frame, the stage that produced  *)
(* it and the frame of each channel's guidance the advance was given.      *)

\* the resolutions in the order of the scales map (ascending FFT size)
scaleOrder == <<Longest \div 4, Longest \div 2, Longest>>
FftSizes == {scaleOrder[j] : j \in 1 .. Len(scaleOrder)}
classify == Longest \div 2
\* m_parameters.sampleRate; bin i of the longest resolution lies at 2i
sampleRate == 2 * Longest
nyquist == sampleRate \div 2

\* scale->bufSize entries
Bins(fftSize) == 0 .. (fftSize \div 2)
\* accumulator.size(): longer than one output hop
AccSize == Longest
AccIdx == 0 .. (AccSize - 1)
synthesisWindowSize(fftSize) == fftSize
analysisWindowSize(fftSize) == fftSize

liveBin(k) == [frame |-> k, scaled |-> 0, zeroed |-> FALSE]
silentBin == [frame |-> 0, scaled |-> 0, zeroed |-> TRUE]
noPhase == [frame |-> 0, stage |-> "none", seen |-> [c \in Chan |-> 0]]
Segmentation(c, k) == [chan |-> c, frame |-> k]
Band(fftSize, f0, f1) == [fftSize |-> fftSize, f0 |-> f0, f1 |-> f1]
Event(op, chans, fftSize) == [op |-> op, chans |-> chans, size |-> fftSize]

\* sample n of the input stream of channel c, and what a short peek leaves
\* behind the samples it read
streamSample(c, n) == [chan |-> c, src |-> n, windows |-> 0]
noSample(c) == [chan |-> c, src |-> -1, windows |-> 0]

\* entry j of what inbuf->peek(frame, longest) reads with the read position
\* at stream sample pos and avail samples queued
peek(c, pos, avail, j) ==
    IF j < avail THEN streamSample(c, pos + j) ELSE noSample(c)

\* a sample multiplied by a window value
tapered(x) == [x EXCEPT !.windows = x.windows + 1]

\* analysisWindow.cut(src + offset, dst) on the frame peeked for channel c:
\* size samples from offset on, tapered into dst
cut(c, pos, avail, offset, size) ==
    [i \in 0 .. (size - 1) |-> tapered(peek(c, pos, avail, offset + i))]

\* the channel data after construction
Frame0 ==
    [k |-> 0,
     outhop |-> 0,
     pos |-> 0,
     next |-> 0,
     fftIn |-> [c \in Chan |-> [s \in FftSizes |->
                                    [i \in 0 .. (s - 1) |-> noSample(c)]]],
     mag |-> [c \in Chan |-> [s \in FftSizes |-> [i \in Bins(s) |-> silentBin]]],
     prevMag |-> [c \in Chan |-> [s \in FftSizes |->
                                      [i \in Bins(s) |-> silentBin]]],
     phase |-> [c \in Chan |-> [s \in FftSizes |-> noPhase]],
     outPhase |-> [c \in Chan |-> [s \in FftSizes |-> noPhase]],
     prevOutPhase |-> [c \in Chan |-> [s \in FftSizes |-> noPhase]],
     segmentation |-> [c \in Chan |-> Segmentation(c, 0)],
     prevSegmentation |-> [c \in Chan |-> Segmentation(c, 0)],
     guidance |-> [c \in Chan |-> [frame |-> 0, fftBands |-> <<>>]],
     guideIn |-> [c \in Chan |->
                     [mag |-> [i \in Bins(classify) |-> silentBin],
                      prevMag |-> [i \in Bins(classify) |-> silentBin],
                      segmentation |-> Segmentation(c, 0),
                      prevSegmentation |-> Segmentation(c, 0)]],
     accumulator |-> [c \in Chan |-> [s \in FftSizes |-> [i \in AccIdx |-> 0]]],
     added |-> [c \in Chan |-> [s \in FftSizes |-> [i \in AccIdx |-> 0]]],
     mixdown |-> [c \in Chan |-> [i \in AccIdx |-> 0]],
     log |-> <<>>]

\* the longest frame windowed in place before the other frames are cut
Extract_windowedFirst(f, c, avail) ==
    LET long == cut(c, f.next, avail, 0, analysisWindowSize(Longest))
    IN [f EXCEPT
          !.pos = f.next,
          !.fftIn[c] =
              [s \in FftSizes |->
                  IF s = Longest THEN long
                  ELSE [i \in 0 .. (analysisWindowSize(s) - 1) |->
                           tapered(long[(Longest - s) \div 2 + i])]]]

\* the frames of channel c: the longest frame is peeked, every other
\* resolution is cut from it at its offset, then the longest is windowed
Extract(f, c, avail) ==
    [f EXCEPT
       !.pos = f.next,
       !.fftIn[c] =
           [s \in FftSizes |->
               IF s = Longest
               THEN cut(c, f.next, avail, 0, analysisWindowSize(Longest))
               ELSE cut(c, f.next, avail, (Longest - s) \div 2,
                        analysisWindowSize(s))]]

\* the frame extraction loop over the channels from c on
RECURSIVE ExtractFrom(_, _, _)
ExtractFrom(f, c, avail) ==
    IF c = Channels THEN f ELSE ExtractFrom(Extract(f, c, avail), c + 1, avail)

\* peek, cut and forwardPolar of every channel at every resolution, the
\* magnitude normalized by 1/fftSize: the spectra of frame k
Analyse(f, k) ==
    [f EXCEPT
       !.k = k,
       !.mag = [c \in Chan |-> [s \in FftSizes |->
                                   [i \in Bins(s) |-> liveBin(k)]]],
       !.phase = [c \in Chan |-> [s \in FftSizes |->
                     [noPhase EXCEPT !.frame = k, !.stage = "analysis"]]],
       !.log = [j \in 1 .. (2 * Channels) |->
                   IF j <= Channels THEN Event("cut", {j - 1}, 0)
                   ELSE Event("fft", {j - 1 - Channels}, 0)]]

\* the new segmentation takes the place of the old one first
Classify_lost(f, c) ==
    [f EXCEPT
       !.segmentation[c] = Segmentation(c, f.mag[c][classify][0].frame),
       !.prevSegmentation[c] = Segmentation(c, f.mag[c][classify][0].frame)]

\* prevSegmentation = segmentation; segmentation = segment(classify mag)
Classify(f, c) ==
    [f EXCEPT
       !.prevSegmentation[c] = f.segmentation[c],
       !.segmentation[c] = Segmentation(c, f.mag[c][classify][0].frame)]

\* m_guide.calculate: what it is given, and the bands it returns
Calculate(f, c, bands) ==
    [f EXCEPT
       !.guideIn[c] = [mag |-> f.mag[c][classify],
                       prevMag |-> f.prevMag[c][classify],
                       segmentation |-> f.segmentation[c],
                       prevSegmentation |-> f.prevSegmentation[c]],
       !.guidance[c] = [frame |-> f.k, fftBands |-> bands],
       !.log = Append(f.log, Event("guide", {c}, 0))]

\* the classification and guidance loop over the channels from c on
RECURSIVE GuideFrom(_, _, _)
GuideFrom(f, c, g) ==
    IF c = Channels THEN f
    ELSE GuideFrom(Calculate(Classify(f, c), c, g[c]), c + 1, g)


\* the output phase guided.advance produces for channel c from the
\* guidance of the channels it was given
advanced(f, c, s, chans) ==
    [frame |-> f.mag[c][s][0].frame,
     stage |-> "advanced",
     seen |-> [d \in Chan |-> IF d \in chans THEN f.guidance[d].frame ELSE 0]]

\* an advance of one resolution for each channel on its own
Advance_perChannel(f, j) ==
    [f EXCEPT
       !.outPhase = [c \in Chan |->
                        [f.outPhase[c] EXCEPT
                           ![scaleOrder[j]] =
                               advanced(f, c, scaleOrder[j], {c})]],
       !.log = f.log \o [c \in 1 .. Channels |->
                            Event("advance", {c - 1}, scaleOrder[j])]]

\* the channels are assembled and guided.advance is called for resolution
\* scaleOrder[j]
Advance(f, j) ==
    [f EXCEPT
       !.outPhase = [c \in Chan |->
                        [f.outPhase[c] EXCEPT
                           ![scaleOrder[j]] =
                               advanced(f, c, scaleOrder[j], Chan)]],
       !.log = Append(f.log, Event("advance", Chan, scaleOrder[j]))]

\* the phase advance loop over the resolutions from scaleOrder[j] on
RECURSIVE AdvanceFrom(_, _)
AdvanceFrom(f, j) ==
    IF j > Len(scaleOrder) THEN f ELSE AdvanceFrom(Advance(f, j), j + 1)

\* f >= band.f0 && f < band.f1 for f = i * sampleRate / fftSize
inBand(i, band) ==
    /\ i * sampleRate >= band.f0 * band.fftSize
    /\ i * sampleRate < band.f1 * band.fftSize

\* mag[i] *= winscale
scaleBin(b) == IF b.zeroed THEN b ELSE [b EXCEPT !.scaled = b.scaled + 1]
\* mag[i] = 0.f
zeroBin(b) == [b EXCEPT !.scaled = 0, !.zeroed = TRUE]

\* the loop over the bins of the band's resolution
gateBand(mag, band) ==
    [i \in DOMAIN mag |->
        IF inBand(i, band) THEN scaleBin(mag[i]) ELSE zeroBin(mag[i])]

\* the loop over the guidance bands from the j-th on
RECURSIVE gateFrom(_, _, _)
gateFrom(mags, bands, j) ==
    IF j > Len(bands) THEN mags
    ELSE gateFrom([mags EXCEPT ![bands[j].fftSize] = gateBand(@, bands[j])],
                  bands, j + 1)

Gate(f, c) ==
    [f EXCEPT !.mag[c] = gateFrom(f.mag[c], f.guidance[c].fftBands, 1)]

\* the copy taken from the magnitudes the band loop has been through
Snapshot_gated(f, c) ==
    [f EXCEPT
       !.prevMag[c] = Gate(f, c).mag[c],
       !.prevOutPhase[c] = f.outPhase[c],
       !.phase[c] = [s \in FftSizes |->
                        [f.outPhase[c][s] EXCEPT !.stage = "wrapped"]]]

\* v_copy to prevMag and prevOutPhase, phase = princarg(outPhase)
Snapshot(f, c) ==
    [f EXCEPT
       !.prevMag[c] = f.mag[c],
       !.prevOutPhase[c] = f.outPhase[c],
       !.phase[c] = [s \in FftSizes |->
                        [f.outPhase[c][s] EXCEPT !.stage = "wrapped"]]]

\* inversePolar: silence when every magnitude is zero
silent(mag) == \A b \in DOMAIN mag : mag[b].zeroed

\* sample i of the frame of iteration k, tapered by the synthesis window
synthSample(k, c, s, i) ==
    (1 + (Min(i, synthesisWindowSize(s) - 1 - i) % 4)) * (1 + ((i + k + c) % 3))

\* inversePolar and cutAndAdd into the accumulator of every resolution
Synthesise(f, c) ==
    LET acc == [s \in FftSizes |->
                   IF silent(f.mag[c][s]) THEN f.accumulator[c][s]
                   ELSE [i \in AccIdx |->
                            IF i < synthesisWindowSize(s)
                            THEN f.accumulator[c][s][i]
                                    + synthSample(f.k, c, s, i)
                            ELSE f.accumulator[c][s][i]]]
    IN [f EXCEPT !.accumulator[c] = acc, !.added[c] = acc]

\* the sum over the resolutions from scaleOrder[j] on of entry i
RECURSIVE sumFrom(_, _, _)
sumFrom(accs, i, j) ==
    IF j > Len(scaleOrder) THEN 0
    ELSE accs[scaleOrder[j]][i] + sumFrom(accs, i, j + 1)

\* the accumulators are summed but not moved
Mixdown_noShift(f, c, oh) ==
    [f EXCEPT
       !.mixdown[c] = [i \in AccIdx |->
                          IF i < oh THEN sumFrom(f.accumulator[c], i, 1)
                          ELSE f.mixdown[c][i]],
       !.log = Append(f.log, Event("mixdown", {c}, 0))]

\* v_zero, then per resolution v_add, v_move and v_zero
Mixdown(f, c, oh) ==
    [f EXCEPT
       !.mixdown[c] = [i \in AccIdx |->
                          IF i < oh THEN sumFrom(f.accumulator[c], i, 1)
                          ELSE f.mixdown[c][i]],
       !.accumulator[c] = [s \in FftSizes |->
                              [i \in AccIdx |->
                                  IF i < AccSize - oh
                                  THEN f.accumulator[c][s][i + oh]
                                  ELSE 0]],
       !.log = Append(f.log, Event("mixdown", {c}, 0))]

\* the resynthesis loop over the channels from c on
RECURSIVE ResynthFrom(_, _, _)
ResynthFrom(f, c, oh) ==
    IF c = Channels THEN f
    ELSE ResynthFrom(Mixdown(Synthesise(Gate(Snapshot(f, c), c), c), c, oh),
                     c + 1, oh)

\* inbuf->skip(m_inhop): the read position moves by what was skipped
Skipped(f, ih, avail) == [f EXCEPT !.next = f.next + Min(ih, avail)]

\* the body of one iteration on the channel data: frame f.k + 1, given the
\* bands g[c] the guide returns for channel c, the output hop oh, the
\* input hop ih and the number avail of samples queued
Iterate(f, g, oh, ih, avail) ==
    Skipped(
        ResynthFrom(
            AdvanceFrom(
                GuideFrom(
                    Analyse(ExtractFrom([f EXCEPT !.outhop = oh], 0, avail),
                            f.k + 1),
                    0, g),
                1),
            0, oh),
        ih, avail)

----------------------------------------------------------------------------
(* A stream of a few frames with the spectral data followed *)

\* number of iterations followed
MaxFrames == 2
FrameCounts == {640, 1152}
FrameTimeRatios == {<<1, 4>>, <<1, 1>>}

quarter == nyquist \div 4
\* partitions of [0, nyquist) into bands: one band per resolution (twice),
\* and one where the longest resolution owns two bands and the shortest none
GuidanceChoices ==
    <<<<Band(scaleOrder[3], 0, quarter),
        Band(scaleOrder[2], quarter, 2 * quarter),
        Band(scaleOrder[1], 2 * quarter, nyquist)>>,
      <<Band(scaleOrder[3], 0, 2 * quarter),
        Band(scaleOrder[2], 2 * quarter, 3 * quarter),
        Band(scaleOrder[1], 3 * quarter, nyquist)>>,
      <<Band(scaleOrder[3], 0, quarter),
        Band(scaleOrder[2], quarter, 2 * quarter),
        Band(scaleOrder[3], 2 * quarter, nyquist)>>>>
\* the guidance of the channels in one frame: the same partition for every
\* channel, or successive partitions from channel to channel
GuidancePlans ==
    {[c \in Chan |-> GuidanceChoices[a]] : a \in 1 .. Len(GuidanceChoices)}
        \cup {[c \in Chan |-> GuidanceChoices[1 + (c % Len(GuidanceChoices))]]}

\* one iteration of the loop with its spectral data
consumeIterationFrame(g) ==
    /\ frame.k < MaxFrames
    /\ consumeQueues
    /\ frame' = Iterate(frame, g, outhop, m_inhop, getReadSpace(inbuf[0]))

InitFrame ==
    /\ m_timeRatio = <<1, 1>>
    /\ m_pitchScale = <<1, 1>>
    /\ m_inhop = calculateHop(getEffectiveRatio(<<1, 1>>, <<1, 1>>))
    /\ m_draining = FALSE
    /\ inbuf = [c \in Chan |-> [size |-> InSize, occ |-> 0]]
    /\ outbuf = [c \in Chan |-> [size |-> OutSize, occ |-> 0]]
    /\ touched = [c \in Chan |-> FALSE]
    /\ pc = "idle"
    /\ outhop = 0
    /\ last = Step("init")
    /\ finalCalled = FALSE
    /\ fed = 0
    /\ got = 0
    /\ frame = Frame0

NextFrame ==
    \/ \E r \in FrameTimeRatios : fed = 0 /\ setTimeRatio(r)
    \/ \E n \in FrameCounts, f \in BOOLEAN :
          frame.k < MaxFrames /\ processCounted(n, f)
    \/ \E g \in GuidancePlans : consumeIterationFrame(g)
    \/ consumeReturn

SpecFrame == InitFrame /\ [][NextFrame]_vars

----------------------------------------------------------------------------
(* Properties *)

occIn(c) == getReadSpace(inbuf[c])
occOut(c) == getReadSpace(outbuf[c])

\* C1: whenever available() has just returned, its result is -1 exactly
\* when draining is active and the output queues are empty, and otherwise
\* it is the output occupancy, which is >= 0.
C1_AvailableSentinel ==
    last.op = "available" =>
        /\ (last.ret = -1) <=> (m_draining /\ \A c \in Chan : occOut(c) = 0)
        /\ last.ret # -1 =>
              /\ last.ret >= 0
              /\ \A c \in Chan : last.ret = occOut(c)

\* available() returned -1 after the engine drained real output
C1_Witness ==
    /\ last.op = "available"
    /\ last.ret = -1
    /\ touched[0]

\* C2 (as claimed): after one process call with N samples and final = true
\* on a fresh engine at the default ratios, available() returns -1 only
\* when no input is left buffered, and by then the samples retrieved are at
\* least N and fewer than N plus one output hop.
C2_EndOfStreamOnlyWhenDrained ==
    (last.op = "available" /\ last.ret = -1) =>
        /\ \A c \in Chan : occIn(c) = 0
        /\ got >= fed
        /\ got < fed + outhop

\* C3: a retrieve(n) call returns min(n, least output occupancy over the
\* channels), whatever the occupancies of the channels were, so the count
\* returned exceeds no channel's occupancy.
C3_RetrieveReturnsMinimum ==
    [][last'.op = "retrieve" =>
          /\ \A c \in Chan : last'.ret <= occOut(c)
          /\ last'.ret <= last'.n
          /\ \/ last'.ret = last'.n
             \/ \E c \in Chan : last'.ret = occOut(c)]_vars

\* retrieve returned less than asked for from channels whose occupancies
\* differed: channel 0 is empty now, channel 1 is not
C3_Witness ==
    /\ last.op = "retrieve"
    /\ 0 < last.ret /\ last.ret < last.n
    /\ occOut(0) = 0
    /\ occOut(1) > 0

\* C4: a process(n) call appends all n samples to every channel's input
\* queue, on top of the content buffered before, before any consume
\* iteration of the call; when n exceeded the write space, every queue was
\* grown so that its write space was at least n.
C4_ProcessNeverDrops ==
    [][last'.op = "process" =>
          /\ pc' = "consume"
          /\ UNCHANGED <<outbuf, touched>>
          /\ \A c \in Chan :
                /\ occIn(c)' = occIn(c) + last'.n
                /\ getSize(inbuf[c])' - occIn(c) >= last'.n
                /\ last'.n > getWriteSpace(inbuf[c]) =>
                      getSize(inbuf[c])' > getSize(inbuf[c])]_vars

\* a process call has grown the input queues over content buffered before
C4_Witness ==
    /\ last.op = "process"
    /\ getSize(inbuf[0]) > InSize
    /\ occIn(0) > last.n
    /\ last.n > 0

\* C5: the engine is draining exactly when some process call so far had
\* final = true, whatever was called since.
C5_DrainingOneWay == m_draining = finalCalled

\* still draining on a process call with final = false
C5_Witness ==
    /\ last.op = "process"
    /\ ~last.final
    /\ m_draining

\* C6: getSamplesRequired() returns max(0, longest size - input occupancy),
\* which is 0 exactly when the occupancy is at least the longest size, and
\* changes nothing of the engine.
C6_SamplesRequired ==
    [][last'.op = "getSamplesRequired" =>
          /\ last'.ret = Max(0, Longest - occIn(0))
          /\ (last'.ret = 0) <=> (occIn(0) >= Longest)
          /\ UNCHANGED <<m_timeRatio, m_pitchScale, m_inhop, m_draining,
                         inbuf, outbuf, touched, pc, outhop>>]_vars

\* getSamplesRequired() returned 0 with more than a longest frame buffered
C6_Witness ==
    /\ last.op = "getSamplesRequired"
    /\ last.ret = 0
    /\ occIn(0) > Longest

\* the hop formula as stated for effective ratio r = <<num, den>>
statedHop(r) ==
    IF r[1] > r[2]
    THEN Max(1, Round(256 * r[2], r[1]))
    ELSE IF 256 * r[2] < 340 * r[1]
         THEN Round(256 * r[2], r[1])
         ELSE 340

\* C7: after every setTimeRatio / setPitchScale call the input hop is the
\* stated formula of the effective ratio of the stored ratios; a setter
\* stores its argument and leaves the other ratio alone, and the getters
\* return the stored values.
C7_HopFormula ==
    [][/\ m_inhop' = statedHop(<<m_timeRatio'[1] * m_pitchScale'[1],
                                m_timeRatio'[2] * m_pitchScale'[2]>>)
       /\ last'.op = "setTimeRatio" =>
             m_timeRatio' = last'.ratio /\ m_pitchScale' = m_pitchScale
       /\ last'.op = "setPitchScale" =>
             m_pitchScale' = last'.ratio /\ m_timeRatio' = m_timeRatio
       /\ last'.op = "getTimeRatio" =>
             last'.ratio = m_timeRatio /\ UNCHANGED <<m_timeRatio, m_pitchScale>>
       /\ last'.op = "getPitchScale" =>
             last'.ratio = m_pitchScale /\ UNCHANGED <<m_timeRatio, m_pitchScale>>
      ]_vars

\* a setter met the clamp: the ideal input hop was below one sample
C7_Witness ==
    /\ last.op \in {"setTimeRatio", "setPitchScale"}
    /\ m_timeRatio[1] * m_pitchScale[1] > 256 * m_timeRatio[2] * m_pitchScale[2]
    /\ m_inhop = 1

\* C8: a consume iteration starts only in a state where (draining, or the
\* input occupancy is at least the longest size) and the output queue has
\* write space for outhop samples; and when process returns while not
\* draining, the input occupancy is below the longest size or the output
\* write space is below outhop.
C8_IterationGuard ==
    [][/\ last'.op = "iteration" =>
             /\ m_draining \/ occIn(0) >= Longest
             /\ getWriteSpace(outbuf[0]) >= outhop
       /\ (last'.op = "return" /\ ~m_draining') =>
             ~(/\ occIn(0)' >= Longest
               /\ getWriteSpace(outbuf[0])' >= outhop')]_vars

\* process returned, not draining, with a full frame still buffered: the
\* loop stopped for want of room in the output queue
C8_Witness ==
    /\ last.op = "return"
    /\ ~m_draining
    /\ touched[0]
    /\ occIn(0) >= Longest

\* C9 (as claimed): after reset() every input and output queue is empty and
\* the accumulators and previous-frame history are as constructed.
C9_ResetClears ==
    last.op = "reset" =>
        \A c \in Chan : occIn(c) = 0 /\ occOut(c) = 0 /\ ~touched[c]

\* C12: between calls and between iterations all channels have the same
\* input occupancy, the same output occupancy and the same input capacity.
C12_ChannelsBalanced ==
    \A c \in Chan :
        /\ occIn(c) = occIn(0)
        /\ occOut(c) = occOut(0)
        /\ getSize(inbuf[c]) = getSize(inbuf[0])

\* after a growth, the last channel holds input and output like channel 0
C12_Witness ==
    /\ getSize(inbuf[Channels - 1]) > InSize
    /\ occIn(Channels - 1) > 0
    /\ occOut(Channels - 1) > 0
    /\ pc = "idle"

\* C14: every consume iteration adds exactly outhop samples to every
\* channel's output queue and removes exactly inhop samples from every
\* channel's input queue, or all that is left when fewer than inhop are
\* buffered, which happens only when draining.
C14_IterationMovesHops ==
    [][last'.op = "iteration" =>
          \A c \in Chan :
             /\ occOut(c)' = occOut(c) + outhop
             /\ occIn(c)' = occIn(c) - Min(m_inhop, occIn(c))
             /\ occIn(c) < m_inhop => m_draining
             /\ UNCHANGED <<m_inhop, outhop>>]_vars

\* an iteration took the rest of the input, less than one input hop
C14_Witness ==
    /\ last.op = "iteration"
    /\ 0 < last.n
    /\ last.n < m_inhop
    /\ occIn(0) = 0

\* C15: every process call terminates: once inside consume, the engine
\* gets back to idle.
C15_ProcessTerminates == (pc = "consume") ~> (pc = "idle")

\* a call returned after iterations with an input hop of one sample
C15_Witness ==
    /\ last.op = "return"
    /\ m_inhop = 1
    /\ touched[0]

\* C16: no iteration starts on an empty input queue; when draining with an
\* empty input queue inside consume, the only step is the return, which
\* leaves the queues and the accumulators alone.
C16_NoIterationOnEmptyInput ==
    [][/\ last'.op = "iteration" => \A c \in Chan : occIn(c) > 0
       /\ (pc = "consume" /\ m_draining /\ occIn(0) = 0) =>
             /\ last'.op = "return"
             /\ UNCHANGED <<inbuf, outbuf, touched>>]_vars

\* the loop stopped on the break: draining, input exhausted, room left in
\* the output queue
C16_Witness ==
    /\ last.op = "return"
    /\ m_draining
    /\ occIn(0) = 0
    /\ touched[0]
    /\ getWriteSpace(outbuf[0]) >= outhop

\* the bands of channel c's guidance that resolution s owns cover bin i
covered(c, s, i) ==
    \E j \in 1 .. Len(frame.guidance[c].fftBands) :
        /\ frame.guidance[c].fftBands[j].fftSize = s
        /\ inBand(i, frame.guidance[c].fftBands[j])

\* the events of the iteration's log with operation op
eventsOf(op) == {j \in 1 .. Len(frame.log) : frame.log[j].op = op}

\* C13: after the gating step of an iteration, for every channel and
\* every resolution, each bin in a band owned by the resolution carries the
\* frame's magnitude scaled exactly once by outhop/winscale and every bin
\* in no band owned by the resolution is zero, whether the resolution owns
\* one band, several or none.
C13_BandGating ==
    frame.k > 0 =>
        \A c \in Chan : \A s \in FftSizes : \A i \in Bins(s) :
            IF covered(c, s, i)
            THEN frame.mag[c][s][i] = [liveBin(frame.k) EXCEPT !.scaled = 1]
            ELSE frame.mag[c][s][i].zeroed

\* C17: after an iteration, for every channel, the mixdown written holds in
\* each of its first outhop samples the sum over the resolutions of the
\* accumulators as they stood after the overlap-add, and each accumulator
\* holds those entries moved left by outhop with its last outhop entries
\* zero.
C17_OverlapAddConservation ==
    frame.k > 0 =>
        \A c \in Chan :
            /\ \A i \in 0 .. (frame.outhop - 1) :
                  frame.mixdown[c][i] = sumFrom(frame.added[c], i, 1)
            /\ \A s \in FftSizes : \A i \in AccIdx :
                  frame.accumulator[c][s][i] =
                      IF i < AccSize - frame.outhop
                      THEN frame.added[c][s][i + frame.outhop]
                      ELSE 0

\* a second frame has been mixed down on top of the tail of the first
C17_Witness ==
    /\ frame.k = 2
    /\ frame.outhop > 0
    /\ \E s \in FftSizes :
          /\ frame.added[0][s][0] > synthSample(2, 0, s, 0)
          /\ frame.accumulator[0][s][0] > 0
    /\ frame.mixdown[0][0] > 0

\* C18: at the end of iteration k every resolution's prevMag is the
\* normalized magnitude of frame k before gating and prevOutPhase is the
\* output phase of frame k, and the guidance calculation of iteration k
\* was given the classification resolution's prevMag of iteration k - 1
\* (that of construction in the first iteration).
C18_SnapshotBeforeGating ==
    frame.k > 0 =>
        \A c \in Chan :
            /\ \A s \in FftSizes :
                  /\ frame.prevMag[c][s] = [i \in Bins(s) |-> liveBin(frame.k)]
                  /\ frame.prevOutPhase[c][s] = frame.outPhase[c][s]
                  /\ frame.prevOutPhase[c][s].frame = frame.k
                  /\ frame.prevOutPhase[c][s].stage = "advanced"
            /\ frame.guideIn[c].prevMag =
                  [i \in Bins(classify) |->
                      IF frame.k = 1 THEN silentBin
                      ELSE liveBin(frame.k - 1)]

\* the second iteration has gated its magnitudes and its guidance was
\* given the un-gated magnitude of the first
C18_Witness ==
    /\ frame.k = 2
    /\ \E c \in Chan : \E i \in Bins(classify) :
          /\ frame.mag[c][classify][i].zeroed
          /\ frame.guideIn[c].prevMag[i] = liveBin(1)
          /\ frame.prevMag[c][classify][i] = liveBin(2)

\* C19: when the guidance of iteration k has been calculated for a channel,
\* it was given as current segmentation the classifier's result for frame
\* k and as previous segmentation the result for frame k - 1 of the same
\* channel (the value of construction in the first frame), whether or not
\* the two frames belong to one process call.
C19_OneFrameOfSegmentationHistory ==
    frame.k > 0 =>
        \A c \in Chan :
            /\ frame.guideIn[c].segmentation = Segmentation(c, frame.k)
            /\ frame.guideIn[c].prevSegmentation =
                  Segmentation(c, frame.k - 1)
            /\ frame.segmentation[c] = Segmentation(c, frame.k)
            /\ frame.prevSegmentation[c] = Segmentation(c, frame.k - 1)

\* the second frame is the first of a second process call: two calls of
\* 640 samples at hop 256 leave one frame to each of them at first
C19_Witness ==
    /\ frame.k = 2
    /\ fed = 1280
    /\ m_inhop = 256
    /\ getReadSpace(inbuf[0]) = 768
    /\ frame.guideIn[1].prevSegmentation = Segmentation(1, 1)

\* C20: in an iteration the phase advance is invoked once for each
\* resolution, with all channels assembled, after the analysis and the
\* guidance calculation of every channel, so that every output phase was
\* advanced under every channel's guidance of the current frame.
C20_AdvanceOncePerResolution ==
    frame.k > 0 =>
        /\ \A s \in FftSizes :
              \E j \in eventsOf("advance") :
                  /\ frame.log[j].size = s
                  /\ frame.log[j].chans = Chan
                  /\ \A h \in eventsOf("advance") :
                        frame.log[h].size = s => h = j
        /\ \A j \in eventsOf("advance") :
              /\ frame.log[j].size \in FftSizes
              /\ \A c \in Chan :
                    /\ \E h \in eventsOf("cut") :
                          h < j /\ frame.log[h].chans = {c}
                    /\ \E h \in eventsOf("fft") :
                          h < j /\ frame.log[h].chans = {c}
                    /\ \E h \in eventsOf("guide") :
                          h < j /\ frame.log[h].chans = {c}
        /\ \A c \in Chan : \A s \in FftSizes :
              frame.outPhase[c][s].seen = [d \in Chan |-> frame.k]

\* a second iteration whose channels were given different guidance
C20_Witness ==
    /\ frame.k = 2
    /\ Cardinality(eventsOf("advance")) = Len(scaleOrder)
    /\ frame.guidance[0].fftBands # frame.guidance[1].fftBands
    /\ frame.outPhase[0][Longest].seen[1] = 2

\* C22: a retrieve call that returns k takes exactly k samples off every
\* channel's output queue, which leaves the channels' output occupancies
\* equal, and it changes nothing else: the input queues, the draining flag,
\* the ratios and the hops are as before and no consume iteration is run.
C22_RetrieveFrame ==
    [][last'.op = "retrieve" =>
          /\ \A c \in Chan :
                /\ getReadSpace(outbuf'[c]) = occOut(c) - last'.ret
                /\ getSize(outbuf'[c]) = getSize(outbuf[c])
                /\ getReadSpace(outbuf'[c]) = getReadSpace(outbuf'[0])
          /\ pc = "idle" /\ pc' = "idle"
          /\ UNCHANGED <<inbuf, m_draining, m_inhop, outhop, m_timeRatio,
                         m_pitchScale, touched, finalCalled>>]_vars

\* retrieve took a part of the queued output while input was buffered
C22_Witness ==
    /\ last.op = "retrieve"
    /\ last.ret > 0
    /\ last.ret = last.n
    /\ \A c \in Chan : occOut(c) > 0 /\ occIn(c) > 0

\* C23: with any stored ratios the input hop is at least 1 and at most 340,
\* and at least 256 when the effective ratio is at most 1.
C23_InhopRange ==
    /\ 1 <= m_inhop
    /\ m_inhop <= 340
    /\ m_timeRatio[1] * m_pitchScale[1] <= m_timeRatio[2] * m_pitchScale[2]
          => m_inhop >= 256

\* both ratios were set, the effective ratio is below 1 and the hop lies
\* strictly between the output hop and the cap
C23_Witness ==
    /\ m_timeRatio # <<1, 1>>
    /\ m_pitchScale # <<1, 1>>
    /\ m_timeRatio[1] * m_pitchScale[1] < m_timeRatio[2] * m_pitchScale[2]
    /\ 256 < m_inhop
    /\ m_inhop < 340

\* C21: in an iteration, for every channel, the frame of a non-longest
\* resolution of size s holds the samples at [(L - s)/2, (L - s)/2 + s) of
\* the longest frame peeked at the read position, tapered by its own
\* window only, and the frame of the longest resolution holds the peeked
\* samples from index 0, tapered once: all resolutions analyse the same
\* centred samples.
C21_CentredCrops ==
    frame.k > 0 =>
        /\ frame.next = fed - occIn(0)
        /\ frame.pos <= frame.next
        /\ \A c \in Chan :
              /\ \A j \in 0 .. (Longest - 1) :
                    /\ frame.fftIn[c][Longest][j].chan = c
                    /\ frame.fftIn[c][Longest][j].windows = 1
                    /\ frame.fftIn[c][Longest][j].src \in {frame.pos + j, -1}
              /\ frame.fftIn[c][Longest][0].src = frame.pos
              /\ \A s \in FftSizes \ {Longest} : \A i \in 0 .. (s - 1) :
                    frame.fftIn[c][s][i] =
                        frame.fftIn[c][Longest][(Longest - s) \div 2 + i]

\* a second frame, cut further along the stream than the first
C21_Witness ==
    /\ frame.k = 2
    /\ frame.pos > 0
    /\ frame.fftIn[1][classify][0] =
          [chan |-> 1, src |-> frame.pos + (Longest - classify) \div 2,
           windows |-> 1]
    /\ frame.fftIn[1][Longest][Longest - 1].src = frame.pos + Longest - 1

====
